---- MODULE Spec2Model ----
(***************************************************************************)
(* Model of the RTC basics example (main.c): the dispatcher loop of main,  *)
(* the set-time flow (set_new_time), the DST configuration flow            *)
(* (set_dst_feature), the alarm interrupt (rtc_isr) and the calendar       *)
(* helpers (validate_date_time, get_week_of_month).                        *)
(*                                                                         *)
(* A step of the foreground is one statement (or one group of statements   *)
(* between two points where the interrupt can be taken and can observe a   *)
(* difference).  The interrupt handler preempts the foreground: while      *)
(* in_isr holds no foreground step is taken.                               *)
(*                                                                         *)
(* Input lines are what fetch_time_data hands to its caller: the number of *)
(* spaces it counted and the numbers sscanf can convert from the buffer.   *)
(***************************************************************************)
EXTENDS Integers, Sequences, FiniteSets

(***************************************************************************)
(* Program constants (the macros of main.c)                                *)
(***************************************************************************)
RTC_CMD_SET_DATE_TIME == "1"
RTC_CMD_CONFIG_DST == "2"
RTC_CMD_ENABLE_DST == "1"
RTC_CMD_DISABLE_DST_quit == "3"   \* variant: the value of the quit command
RTC_CMD_DISABLE_DST == "2"
RTC_CMD_QUIT_CONFIG_DST == "3"
FIXED_DST_FORMAT == "1"
RELATIVE_DST_FORMAT == "2"

UART_TIMEOUT_MS == 10
STRING_BUFFER_SIZE == 80

MIN_SPACE_KEY_COUNT_NEW_TIME == 5
MIN_SPACE_KEY_COUNT_DST_TIME == 3

MAX_SEC_OR_MIN == 60
MAX_HOURS_24H == 23
MONTHS_PER_YEAR == 12

DST_DISABLED_FLAG == 0
DST_VALID_START_TIME_FLAG == 1
DST_VALID_END_TIME_FLAG == 2
DST_ENABLED_FLAG == 3

CY_RTC_DST_FIXED == "FIXED"
CY_RTC_DST_RELATIVE == "RELATIVE"

(***************************************************************************)
(* Calendar helpers                                                        *)
(***************************************************************************)
IS_SEC_VALID(sec) == sec <= MAX_SEC_OR_MIN
IS_MIN_VALID(min) == min <= MAX_SEC_OR_MIN
\* Variant of the hour test that lets hour 24 pass.
IS_HOUR_VALID_24(hour) == hour <= MAX_HOURS_24H + 1

IS_HOUR_VALID(hour) == hour <= MAX_HOURS_24H
IS_MONTH_VALID(month) == (month > 0) /\ (month <= MONTHS_PER_YEAR)
IS_YEAR_VALID(year) == year > 0

\* Variant of the leap year test without the century rule.
IS_LEAP_YEAR_div4(year) == 0 = (year % 4)

IS_LEAP_YEAR(year) ==
    ((0 = (year % 4)) /\ (0 # (year % 100))) \/ (0 = (year % 400))

days_in_month_table == <<31, 28, 31, 30, 31, 30, 31, 31, 30, 31, 30, 31>>

\* validate_date_time: the range checks first; the day-of-month check only
\* when they pass (the table is indexed with a valid month only).
validate_date_time(sec, min, hour, mday, month, year) ==
    LET rslt == IS_SEC_VALID(sec) /\ IS_MIN_VALID(min) /\ IS_HOUR_VALID(hour)
                /\ IS_MONTH_VALID(month) /\ IS_YEAR_VALID(year)
    IN  IF rslt
        THEN LET days_in_month ==
                     IF IS_LEAP_YEAR(year) /\ (month = 2)
                     THEN days_in_month_table[month] + 1
                     ELSE days_in_month_table[month]
             IN  (mday > 0) /\ (mday <= days_in_month)
        ELSE FALSE

\* Cy_RTC_ConvertDayOfWeek: the driver's Gregorian day-of-week,
\* 1 = Sunday .. 7 = Saturday.
MonthOffset == <<0, 3, 2, 5, 0, 3, 5, 1, 4, 6, 2, 4>>

Cy_RTC_ConvertDayOfWeek(day, month, year) ==
    LET y == IF month < 3 THEN year - 1 ELSE year
    IN  ((y + (y \div 4) - (y \div 100) + (y \div 400)
            + MonthOffset[month] + day) % 7) + 1

\* The while loop of get_week_of_month.
RECURSIVE WeekLoop(_, _, _)
WeekLoop(day, weekend_day, count) ==
    IF day > weekend_day
    THEN WeekLoop(day, weekend_day + 7, count + 1)
    ELSE count

\* Variants of the week computation: the first threshold taken from 7; the
\* count started at 0.
WeekOfMonthFrom_7(day, day_of_week) == WeekLoop(day, 7 - day_of_week, 1)
WeekOfMonthFrom_count0(day, day_of_week) == WeekLoop(day, 8 - day_of_week, 0)

\* get_week_of_month after the call of Cy_RTC_ConvertDayOfWeek, day_of_week
\* being the weekday of day 1 of the month.
WeekOfMonthFrom(day, day_of_week) ==
    LET weekend_day == 8 - day_of_week
    IN  WeekLoop(day, weekend_day, 1)

get_week_of_month(day, month, year) ==
    LET day_of_week == Cy_RTC_ConvertDayOfWeek(1, month, year)
    IN  WeekOfMonthFrom(day, day_of_week)

(***************************************************************************)
(* DST rule points                                                         *)
(***************************************************************************)
RuleFields ==
    <<"format", "hour", "month", "dayOfWeek", "dayOfMonth", "weekOfMonth">>

\* A static cy_stc_rtc_dst_t is zero-initialised.
ZeroRule ==
    [format |-> "ZERO", hour |-> 0, month |-> 0, dayOfWeek |-> 0,
     dayOfMonth |-> 0, weekOfMonth |-> 0]

\* The values the enable flow stores in a rule point, in store order.
BuildRule(f, h, d, m, y) ==
    [format      |-> IF f = FIXED_DST_FORMAT THEN CY_RTC_DST_FIXED
                                              ELSE CY_RTC_DST_RELATIVE,
     hour        |-> h,
     month       |-> m,
     dayOfWeek   |-> IF f = FIXED_DST_FORMAT THEN 1
                     ELSE Cy_RTC_ConvertDayOfWeek(d, m, y),
     dayOfMonth  |-> IF f = FIXED_DST_FORMAT THEN d ELSE 1,
     weekOfMonth |-> IF f = FIXED_DST_FORMAT THEN 1
                     ELSE get_week_of_month(d, m, y)]

\* Variant of the null rule with the month left at zero.
NullRule_month0 ==
    [format |-> CY_RTC_DST_FIXED, hour |-> 0, month |-> 0, dayOfWeek |-> 1,
     dayOfMonth |-> 1, weekOfMonth |-> 1]

\* The values the disable action stores in stopDst.
NullRule ==
    [format |-> CY_RTC_DST_FIXED, hour |-> 0, month |-> 1, dayOfWeek |-> 1,
     dayOfMonth |-> 1, weekOfMonth |-> 1]

\* The format selector test of the enable flow.
FormatValid(f) == (f = FIXED_DST_FORMAT) \/ (f = RELATIVE_DST_FORMAT)

\* sscanf with n conversions: the first Len(fields) targets are assigned,
\* the others keep their value.
Sscanf(old, fields) ==
    [i \in 1..Len(old) |-> IF i <= Len(fields) THEN fields[i] ELSE old[i]]

(***************************************************************************)
(* Inputs                                                                  *)
(***************************************************************************)
\* Bytes the operator may send as a command or a selector.
CmdBytes == {"1", "2", "3", "x"}
FmtBytes == {"1", "2", "x"}

\* Lines for the DST prompts "HH dd mm yyyy".
DstLines ==
    { [spaces |-> 3, fields |-> <<1, 1, 1, 2024>>],
      [spaces |-> 3, fields |-> <<2, 29, 2, 2024>>],
      [spaces |-> 3, fields |-> <<2, 29, 2, 2023>>],
      [spaces |-> 2, fields |-> <<1, 1, 1>>],
      [spaces |-> 3, fields |-> << >>] }

\* Lines for the prompt "HH MM SS dd mm yyyy".
TimeLines ==
    { [spaces |-> 5, fields |-> <<12, 30, 0, 15, 6, 2025>>],
      [spaces |-> 5, fields |-> <<23, 60, 60, 31, 12, 1999>>],
      [spaces |-> 5, fields |-> <<24, 0, 0, 1, 1, 2025>>],
      [spaces |-> 4, fields |-> <<12, 30, 0, 15, 6>>],
      [spaces |-> 5, fields |-> << >>] }

\* Arguments for the calls of the calendar helpers: days 0..MaxDayIn,
\* months 0..MaxMonthIn and the values around each range limit.
MaxDayIn == 32
MaxMonthIn == 13
CalSecs == {0, 59, 60, 61}
CalMins == {0, 60, 61}
CalHours == {0, 23, 24}
CalYears == {0, 1, 1900, 2000, 2023, 2024}

\* The overall budget handed to fetch_time_data (INPUT_TIMEOUT_MS scaled
\* down), the budget that runs out on the iteration that fills the buffer,
\* and one that is used up on entry.
MaxBudget == 900
Budgets == {UART_TIMEOUT_MS, MaxBudget - 90, MaxBudget}

\* What the operator types, character by character.
ExampleLine ==
    <<"1", "2", " ", "3", "0", " ", "0", "0", " ", "1", "5", " ",
      "0", "6", " ", "2", "0", "2", "5", "\r">>
ShortLine == <<"7", " ", "8", "\n", "9">>
OpenLine == <<"2", "3", " ", "5", "9">>
LongLine == [i \in 1..(STRING_BUFFER_SIZE + 2) |-> "7"]
TypedLines == {ExampleLine, ShortLine, OpenLine, LongLine, << >>}

\* The timeouts get_character is called with, 0 .. MaxTimeout, and the
\* units that may reach the receiver during a call.
MaxTimeout == 12
ReaderUnits == {<< >>, <<"a">>, <<"a", "b">>}

\* Values an uninitialised uint8_t local of fetch_time_data may hold.
IndeterminateChar == {"\r", "x"}

\* Values an uninitialised uint32_t local of set_new_time may hold.
Indeterminate == {1, 77}

\* The date and time the RTC holds after Cy_RTC_Init(&RTC_config).
RTC_config ==
    [sec |-> 0, min |-> 0, hour |-> 0, date |-> 1, month |-> 1, year |-> 0]

(***************************************************************************)
(* State                                                                   *)
(***************************************************************************)
VARIABLES
    pc,              \* position of the foreground
    in_isr,          \* rtc_isr is running (it preempted the foreground)
    irq_enabled,     \* interrupts are not masked
    savedIntrStatus, \* main: value returned by Cy_SysLib_EnterCriticalSection
    century_data,    \* static century_data
    current_time,    \* static current_time (the last snapshot read)
    dst_time,        \* static dst_time: [startDst, stopDst]
    dst_data_flag,   \* static dst_data_flag of set_dst_feature
    fmt, hour, mday, month, year,  \* locals of set_dst_feature
    idx,             \* number of rule fields stored so far
    rtc_time,        \* the date and time the RTC holds
    rtc_dst,         \* the schedule of the last accepted Cy_RTC_EnableDstTime
    rtc_year,        \* the full year of the last accepted date and time
    calc,            \* a call of a calendar helper: arguments and result
    fetch,           \* a call of fetch_time_data: its locals and the UART
    flow             \* record of the running (or just ended) flow

vars == <<pc, in_isr, irq_enabled, savedIntrStatus, century_data,
          current_time, dst_time, dst_data_flag, fmt, hour, mday, month,
          year, idx, rtc_time, rtc_dst, rtc_year, calc, fetch, flow>>

locals == <<fmt, hour, mday, month, year, idx>>
clock == <<century_data, current_time, rtc_time, rtc_year>>
unit == <<calc, fetch>>
program == <<pc, in_isr, irq_enabled, savedIntrStatus, century_data,
             current_time, dst_time, dst_data_flag, fmt, hour, mday, month,
             year, idx, rtc_time, rtc_dst, rtc_year, flow>>
irq == <<in_isr, irq_enabled, savedIntrStatus>>

NoLine == [spaces |-> 0, fields |-> << >>]

\* No flow is running and none has just ended.
NoFlow ==
    [kind |-> "none", op |-> "none", prev |-> "none",
     entry_flag |-> 0,
     entry_dst |-> [startDst |-> ZeroRule, stopDst |-> ZeroRule],
     entry_rtc_dst |-> [startDst |-> ZeroRule, stopDst |-> ZeroRule],
     entry_clock |-> <<RTC_config, 2000>>,
     cmd |-> "none", sel |-> "none",
     start |-> "none", start_line |-> NoLine,
     end |-> "none", end_line |-> NoLine,
     commit |-> "none", timeouts |-> 0, late_input |-> FALSE]

\* No calendar helper has been called; fetch_time_data is not running.
NoCalc == [op |-> "none"]
NoFetch == [pc |-> "none"]

\* The state main reaches before its dispatcher loop, but for pc.
InitProgram ==
    /\ in_isr = FALSE
    /\ irq_enabled = TRUE
    /\ savedIntrStatus = TRUE
    /\ century_data = 2000
    /\ current_time = RTC_config
    /\ dst_time = [startDst |-> ZeroRule, stopDst |-> ZeroRule]
    /\ dst_data_flag = DST_DISABLED_FLAG
    /\ fmt = "0" /\ hour = 0 /\ mday = 0 /\ month = 0 /\ year = 0
    /\ idx = 0
    /\ rtc_time = RTC_config
    /\ rtc_dst = [startDst |-> ZeroRule, stopDst |-> ZeroRule]
    /\ rtc_year = 2000 + RTC_config.year
    /\ flow = NoFlow

Init ==
    /\ pc = "main_top"
    /\ InitProgram
    /\ calc = NoCalc
    /\ fetch = NoFetch

(***************************************************************************)
(* Control flow helpers                                                    *)
(***************************************************************************)
\* The test that opens the end-time block of the enable flow.
EndPromptDue(f) == DST_VALID_START_TIME_FLAG = f

\* Variants of the commit test: compared with the wrong flag; any captured
\* time opens the block.
CommitDue_wrongflag(f) == DST_ENABLED_FLAG = f
CommitDue_lax(f) ==
    (DST_VALID_START_TIME_FLAG <= f) /\ (f <= DST_VALID_END_TIME_FLAG)

\* The test that opens the commit block of the enable flow.
CommitDue(f) == DST_VALID_END_TIME_FLAG = f

\* Variant of the end of the enable flow: the end time is asked for again
\* until the commit is due.
NextAfterEnd_retry(f) == IF CommitDue(f) THEN "dst_commit_read" ELSE "dst_end"

\* Variant of the end of the enable flow: it returns after the end-time
\* block without the commit block.
NextAfterEnd_return(f) == "main_top"

\* Where the enable flow continues after the end-time block, flag being f.
NextAfterEnd(f) == IF CommitDue(f) THEN "dst_commit_read" ELSE "main_top"

\* Where the enable flow continues after the start-time block, flag being f.
NextAfterStart(f) == IF EndPromptDue(f) THEN "dst_end" ELSE NextAfterEnd(f)

\* The locals of set_dst_feature as their initialisers leave them.
LocalsFresh ==
    /\ fmt' = "0" /\ hour' = 0 /\ mday' = 0 /\ month' = 0 /\ year' = 0
    /\ idx' = 0

\* The flow continues at position p with the scanned values v of hour,
\* mday, month, year; its frame is gone when p is the dispatcher loop.
Continue(p, v) ==
    /\ pc' = p
    /\ IF p = "main_top"
       THEN LocalsFresh
       ELSE /\ hour' = v[1] /\ mday' = v[2] /\ month' = v[3] /\ year' = v[4]
            /\ idx' = 0
            /\ UNCHANGED fmt

Scanned == <<hour, mday, month, year>>

\* Variant of handle_error that returns to its caller's caller.
handle_error_returns ==
    /\ irq_enabled' = FALSE
    /\ pc' = "main_top"

\* handle_error: interrupts are disabled and execution is parked.
handle_error ==
    /\ irq_enabled' = FALSE
    /\ pc' = "halted"

\* The record of a flow that starts now.
BeginFlow(k) ==
    [NoFlow EXCEPT !.kind = k, !.prev = flow.prev,
                   !.entry_flag = dst_data_flag,
                   !.entry_dst = dst_time,
                   !.entry_rtc_dst = rtc_dst,
                   !.entry_clock = <<rtc_time, century_data>>]

\* What the flow that just ended leaves for "the previous flow".
Outcome ==
    IF flow.kind = "none" THEN flow.prev
    ELSE IF flow.op = "disable" /\ flow.commit = "accepted" THEN "disable"
    ELSE "other"

(***************************************************************************)
(* main: the dispatcher loop                                               *)
(***************************************************************************)
\* Cy_SysLib_EnterCriticalSection; Cy_RTC_GetDateAndTime starts.
MainEnterCritical ==
    /\ pc = "main_top" /\ ~in_isr
    /\ savedIntrStatus' = irq_enabled
    /\ irq_enabled' = FALSE
    /\ pc' = "main_read"
    /\ flow' = [NoFlow EXCEPT !.prev = Outcome]
    /\ UNCHANGED <<unit, in_isr, clock, dst_time, dst_data_flag, locals, rtc_dst>>

\* Cy_RTC_GetDateAndTime(&current_time) completes.
MainGetDateAndTime ==
    /\ pc = "main_read" /\ ~in_isr
    /\ current_time' = rtc_time
    /\ pc' = "main_exit_cs"
    /\ UNCHANGED <<unit, irq, century_data, rtc_time, rtc_year, dst_time, dst_data_flag,
                   locals, rtc_dst, flow>>

\* Cy_SysLib_ExitCriticalSection(savedIntrStatus); the time is printed.
MainExitCritical ==
    /\ pc = "main_exit_cs" /\ ~in_isr
    /\ irq_enabled' = savedIntrStatus
    /\ pc' = "main_cmd"
    /\ UNCHANGED <<unit, in_isr, savedIntrStatus, clock, dst_time, dst_data_flag,
                   locals, rtc_dst, flow>>

\* get_character(UART_HW, &cmd, UART_TIMEOUT_MS) and the dispatch on cmd.
MainCommand ==
    /\ pc = "main_cmd" /\ ~in_isr
    /\ \/ /\ pc' = "main_top"            \* no byte within the poll
          /\ UNCHANGED flow
       \/ \E cmd \in CmdBytes :
            IF cmd = RTC_CMD_SET_DATE_TIME
            THEN pc' = "time_line" /\ flow' = BeginFlow("time")
            ELSE IF cmd = RTC_CMD_CONFIG_DST
            THEN pc' = "dst_entry" /\ flow' = BeginFlow("dst")
            ELSE pc' = "main_top" /\ UNCHANGED flow
    /\ UNCHANGED <<unit, irq, clock, dst_time, dst_data_flag, locals, rtc_dst>>

(***************************************************************************)
(* rtc_isr                                                                 *)
(***************************************************************************)
\* The interrupt is taken: rtc_isr runs Cy_RTC_Interrupt(&dst_time, true).
RtcIsrEnter ==
    /\ irq_enabled /\ ~in_isr
    /\ in_isr' = TRUE
    /\ UNCHANGED <<unit, pc, irq_enabled, savedIntrStatus, clock, dst_time,
                   dst_data_flag, locals, rtc_dst, flow>>

\* rtc_isr returns.
RtcIsrReturn ==
    /\ in_isr
    /\ in_isr' = FALSE
    /\ UNCHANGED <<unit, pc, irq_enabled, savedIntrStatus, clock, dst_time,
                   dst_data_flag, locals, rtc_dst, flow>>

(***************************************************************************)
(* set_new_time                                                            *)
(***************************************************************************)
\* Variant of the argument order of the sscanf: seconds first.
TimeFields_secFirst(v) ==
    [hour |-> v[3], min |-> v[2], sec |-> v[1],
     mday |-> v[4], month |-> v[5], year |-> v[6]]

\* The targets of the sscanf of set_new_time, in conversion order.
TimeFields(v) ==
    [hour |-> v[1], min |-> v[2], sec |-> v[3],
     mday |-> v[4], month |-> v[5], year |-> v[6]]

\* fetch_time_data, the space count test, sscanf, validate_date_time,
\* Cy_RTC_SetDateAndTimeDirect and the update of century_data.
SetNewTime ==
    /\ pc = "time_line" /\ ~in_isr
    /\ pc' = "main_top"
    /\ \/ /\ flow' = [flow EXCEPT !.timeouts = @ + 1, !.start = "timeout"]
          /\ UNCHANGED <<century_data, rtc_time, rtc_year>>
       \/ \E line \in TimeLines :
            IF line.spaces # MIN_SPACE_KEY_COUNT_NEW_TIME
            THEN /\ flow' = [flow EXCEPT !.start = "invalid",
                                         !.start_line = line]
                 /\ UNCHANGED <<century_data, rtc_time, rtc_year>>
            ELSE \E garbage \in [1..6 -> Indeterminate] :
                   LET t == TimeFields(Sscanf(garbage, line.fields))
                       t_hour == t.hour  t_min == t.min     t_sec == t.sec
                       t_mday == t.mday  t_month == t.month t_year == t.year
                   IN  IF validate_date_time(t_sec, t_min, t_hour,
                                             t_mday, t_month, t_year)
                       THEN \E accepted \in BOOLEAN :
                              /\ rtc_time' =
                                   IF accepted
                                   THEN [sec |-> t_sec, min |-> t_min,
                                         hour |-> t_hour, date |-> t_mday,
                                         month |-> t_month,
                                         year |-> t_year % 100]
                                   ELSE rtc_time
                              /\ rtc_year' = IF accepted THEN t_year
                                                         ELSE rtc_year
                              /\ century_data' = (t_year \div 100) * 100
                              /\ flow' = [flow EXCEPT
                                   !.start = "ok", !.start_line = line,
                                   !.commit = IF accepted THEN "accepted"
                                                          ELSE "rejected"]
                       ELSE /\ flow' = [flow EXCEPT !.start = "invalid",
                                                    !.start_line = line]
                            /\ UNCHANGED <<century_data, rtc_time, rtc_year>>
    /\ UNCHANGED <<unit, irq, current_time, dst_time, dst_data_flag, locals,
                   rtc_dst>>

(***************************************************************************)
(* set_dst_feature                                                         *)
(***************************************************************************)
\* Entry: the locals are initialised; with the feature enabled the status
\* query starts to read the clock.
DstEntry ==
    /\ pc = "dst_entry" /\ ~in_isr
    /\ LocalsFresh
    /\ pc' = IF DST_ENABLED_FLAG = dst_data_flag THEN "dst_status_read"
                                                 ELSE "dst_menu"
    /\ UNCHANGED <<unit, irq, clock, dst_time, dst_data_flag, rtc_dst, flow>>

\* Cy_RTC_GetDateAndTime(&current_time) completes; the status is printed.
DstStatusRead ==
    /\ pc = "dst_status_read" /\ ~in_isr
    /\ current_time' = rtc_time
    /\ pc' = "dst_menu"
    /\ UNCHANGED <<unit, irq, century_data, rtc_time, rtc_year, dst_time, dst_data_flag,
                   locals, rtc_dst, flow>>

\* get_character(UART_HW, &dst_cmd, timeout_ms) and the dispatch on dst_cmd.
DstMenu ==
    /\ pc = "dst_menu" /\ ~in_isr
    /\ \/ /\ flow' = [flow EXCEPT !.timeouts = @ + 1]
          /\ Continue("main_top", Scanned)
       \/ \E dst_cmd \in CmdBytes :
            IF dst_cmd = RTC_CMD_ENABLE_DST
            THEN /\ flow' = [flow EXCEPT !.op = "enable", !.cmd = dst_cmd]
                 /\ Continue("dst_fmt", Scanned)
            ELSE IF dst_cmd = RTC_CMD_DISABLE_DST
            THEN /\ flow' = [flow EXCEPT !.op = "disable", !.cmd = dst_cmd]
                 /\ Continue("dis_store", Scanned)
            ELSE IF dst_cmd = RTC_CMD_QUIT_CONFIG_DST
            THEN /\ flow' = [flow EXCEPT !.op = "quit", !.cmd = dst_cmd]
                 /\ Continue("main_top", Scanned)
            ELSE /\ flow' = [flow EXCEPT !.op = "other", !.cmd = dst_cmd]
                 /\ Continue("main_top", Scanned)
    /\ UNCHANGED <<unit, irq, clock, dst_time, dst_data_flag, rtc_dst>>

\* get_character(UART_HW, &fmt, timeout_ms).
DstFormat ==
    /\ pc = "dst_fmt" /\ ~in_isr
    /\ \/ /\ flow' = [flow EXCEPT !.timeouts = @ + 1]
          /\ Continue("main_top", Scanned)
       \/ \E c \in FmtBytes :
            /\ fmt' = c
            /\ pc' = "dst_start"
            /\ flow' = [flow EXCEPT !.sel = c]
            /\ UNCHANGED <<hour, mday, month, year, idx>>
    /\ UNCHANGED <<unit, irq, clock, dst_time, dst_data_flag, rtc_dst>>

\* The start-time prompt: fetch_time_data, the space count test, sscanf and
\* the validation; then the test that opens the end-time block.
DstStartLine ==
    /\ pc = "dst_start" /\ ~in_isr
    /\ \/ /\ flow' = [flow EXCEPT !.timeouts = @ + 1, !.start = "timeout"]
          /\ Continue(NextAfterStart(dst_data_flag), Scanned)
       \/ \E line \in DstLines :
            IF line.spaces # MIN_SPACE_KEY_COUNT_DST_TIME
            THEN /\ flow' = [flow EXCEPT !.start = "invalid",
                                         !.start_line = line]
                 /\ Continue(NextAfterStart(dst_data_flag), Scanned)
            ELSE LET v == Sscanf(Scanned, line.fields)
                 IN  IF validate_date_time(0, 0, v[1], v[2], v[3], v[4])
                        /\ FormatValid(fmt)
                     THEN /\ flow' = [flow EXCEPT !.start = "ok",
                                                  !.start_line = line]
                          /\ Continue("dst_start_store", v)
                     ELSE /\ flow' = [flow EXCEPT !.start = "invalid",
                                                  !.start_line = line]
                          /\ Continue(NextAfterStart(dst_data_flag), v)
    /\ UNCHANGED <<unit, irq, clock, dst_time, dst_data_flag, rtc_dst>>

\* One store into dst_time.startDst; after the last one dst_data_flag is
\* set and the test that opens the end-time block is made.
DstStartStore ==
    /\ pc = "dst_start_store" /\ ~in_isr
    /\ LET f == RuleFields[idx + 1]
       IN  dst_time' = [dst_time EXCEPT
                          !.startDst[f] = BuildRule(fmt, hour, mday,
                                                    month, year)[f]]
    /\ IF idx + 1 < Len(RuleFields)
       THEN /\ idx' = idx + 1
            /\ UNCHANGED <<pc, dst_data_flag, fmt, hour, mday, month, year>>
       ELSE /\ dst_data_flag' = DST_VALID_START_TIME_FLAG
            /\ Continue(NextAfterStart(DST_VALID_START_TIME_FLAG), Scanned)
    /\ UNCHANGED <<unit, irq, clock, rtc_dst, flow>>

\* The end-time prompt: fetch_time_data, the space count test, sscanf and
\* the validation; then the test that opens the commit block.
DstEndLine ==
    /\ pc = "dst_end" /\ ~in_isr
    /\ LET late == flow.late_input \/ flow.timeouts > 0
       IN
       \/ /\ flow' = [flow EXCEPT !.timeouts = @ + 1, !.end = "timeout",
                                  !.late_input = late]
          /\ Continue(NextAfterEnd(dst_data_flag), Scanned)
       \/ \E line \in DstLines :
            IF line.spaces # MIN_SPACE_KEY_COUNT_DST_TIME
            THEN /\ flow' = [flow EXCEPT !.end = "invalid",
                                         !.end_line = line,
                                         !.late_input = late]
                 /\ Continue(NextAfterEnd(dst_data_flag), Scanned)
            ELSE LET v == Sscanf(Scanned, line.fields)
                 IN  IF validate_date_time(0, 0, v[1], v[2], v[3], v[4])
                        /\ FormatValid(fmt)
                     THEN /\ flow' = [flow EXCEPT !.end = "ok",
                                                  !.end_line = line,
                                                  !.late_input = late]
                          /\ Continue("dst_end_store", v)
                     ELSE /\ flow' = [flow EXCEPT !.end = "invalid",
                                                  !.end_line = line,
                                                  !.late_input = late]
                          /\ Continue(NextAfterEnd(dst_data_flag), v)
    /\ UNCHANGED <<unit, irq, clock, dst_time, dst_data_flag, rtc_dst>>

\* One store into dst_time.stopDst; after the last one dst_data_flag is set
\* and the test that opens the commit block is made.
DstEndStore ==
    /\ pc = "dst_end_store" /\ ~in_isr
    /\ LET f == RuleFields[idx + 1]
       IN  dst_time' = [dst_time EXCEPT
                          !.stopDst[f] = BuildRule(fmt, hour, mday,
                                                   month, year)[f]]
    /\ IF idx + 1 < Len(RuleFields)
       THEN /\ idx' = idx + 1
            /\ UNCHANGED <<pc, dst_data_flag, fmt, hour, mday, month, year>>
       ELSE /\ dst_data_flag' = DST_VALID_END_TIME_FLAG
            /\ Continue(NextAfterEnd(DST_VALID_END_TIME_FLAG), Scanned)
    /\ UNCHANGED <<unit, irq, clock, rtc_dst, flow>>

\* Cy_RTC_GetDateAndTime(&current_time) before the commit of the schedule.
DstCommitRead ==
    /\ pc = "dst_commit_read" /\ ~in_isr
    /\ current_time' = rtc_time
    /\ pc' = "dst_commit"
    /\ UNCHANGED <<unit, irq, century_data, rtc_time, rtc_year, dst_time, dst_data_flag,
                   locals, rtc_dst, flow>>

\* Cy_RTC_EnableDstTime(&dst_time, &current_time) and the test of its result.
DstCommit ==
    /\ pc = "dst_commit" /\ ~in_isr
    /\ \E accepted \in BOOLEAN :
         IF accepted
         THEN /\ rtc_dst' = dst_time
              /\ dst_data_flag' = DST_ENABLED_FLAG
              /\ flow' = [flow EXCEPT !.commit = "accepted"]
              /\ Continue("main_top", Scanned)
              /\ UNCHANGED irq_enabled
         ELSE /\ flow' = [flow EXCEPT !.commit = "rejected"]
              /\ handle_error
              /\ UNCHANGED <<rtc_dst, dst_data_flag, locals>>
    /\ UNCHANGED <<unit, in_isr, savedIntrStatus, clock, dst_time>>

\* Disable: one store of the null rule into dst_time.stopDst.
DisStore ==
    /\ pc = "dis_store" /\ ~in_isr
    /\ LET f == RuleFields[idx + 1]
       IN  dst_time' = [dst_time EXCEPT !.stopDst[f] = NullRule[f]]
    /\ IF idx + 1 < Len(RuleFields)
       THEN idx' = idx + 1 /\ UNCHANGED pc
       ELSE idx' = 0 /\ pc' = "dis_copy"
    /\ UNCHANGED <<unit, irq, clock, dst_data_flag, fmt, hour, mday, month, year,
                   rtc_dst, flow>>

\* Disable: dst_time.startDst = dst_time.stopDst.
DisCopy ==
    /\ pc = "dis_copy" /\ ~in_isr
    /\ dst_time' = [dst_time EXCEPT !.startDst = dst_time.stopDst]
    /\ pc' = "dis_read"
    /\ UNCHANGED <<unit, irq, clock, dst_data_flag, locals, rtc_dst, flow>>

\* Disable: Cy_RTC_GetDateAndTime(&current_time) before the commit.
DisRead ==
    /\ pc = "dis_read" /\ ~in_isr
    /\ current_time' = rtc_time
    /\ pc' = "dis_commit"
    /\ UNCHANGED <<unit, irq, century_data, rtc_time, rtc_year, dst_time, dst_data_flag,
                   locals, rtc_dst, flow>>

\* Disable: Cy_RTC_EnableDstTime(&dst_time, &current_time) and the test of
\* its result.
DisCommit ==
    /\ pc = "dis_commit" /\ ~in_isr
    /\ \E accepted \in BOOLEAN :
         IF accepted
         THEN /\ rtc_dst' = dst_time
              /\ dst_data_flag' = DST_DISABLED_FLAG
              /\ flow' = [flow EXCEPT !.commit = "accepted"]
              /\ Continue("main_top", Scanned)
              /\ UNCHANGED irq_enabled
         ELSE /\ flow' = [flow EXCEPT !.commit = "rejected"]
              /\ handle_error
              /\ UNCHANGED <<rtc_dst, dst_data_flag, locals>>
    /\ UNCHANGED <<unit, in_isr, savedIntrStatus, clock, dst_time>>

(***************************************************************************)
(* Specification                                                           *)
(***************************************************************************)
Next ==
    \/ MainEnterCritical
    \/ MainGetDateAndTime
    \/ MainExitCritical
    \/ MainCommand
    \/ RtcIsrEnter
    \/ RtcIsrReturn
    \/ SetNewTime
    \/ DstEntry
    \/ DstStatusRead
    \/ DstMenu
    \/ DstFormat
    \/ DstStartLine
    \/ DstStartStore
    \/ DstEndLine
    \/ DstEndStore
    \/ DstCommitRead
    \/ DstCommit
    \/ DisStore
    \/ DisCopy
    \/ DisRead
    \/ DisCommit

Spec == Init /\ [][Next]_vars


(***************************************************************************)
(* The calendar helpers called on their own                                *)
(***************************************************************************)
InitCal ==
    /\ pc = "calc"
    /\ InitProgram
    /\ calc = NoCalc
    /\ fetch = NoFetch

\* A call of validate_date_time.
CalValidate ==
    /\ pc = "calc" /\ calc.op = "none"
    /\ \E s \in CalSecs, mi \in CalMins, h \in CalHours,
          d \in 0..MaxDayIn, m \in 0..MaxMonthIn, y \in CalYears :
         calc' = [op |-> "validate", sec |-> s, min |-> mi, hour |-> h,
                  day |-> d, month |-> m, year |-> y,
                  result |-> validate_date_time(s, mi, h, d, m, y)]
    /\ UNCHANGED <<program, fetch>>

\* A call of get_week_of_month with a date the validation accepts; result
\* is the value returned when Cy_RTC_ConvertDayOfWeek gives dow1 for day 1
\* of the month, actual the value with the driver's weekday of that day.
CalWeekOfMonth ==
    /\ pc = "calc" /\ calc.op = "none"
    /\ \E d \in 0..MaxDayIn, m \in 0..MaxMonthIn, y \in CalYears,
          w \in 1..7 :
         /\ validate_date_time(0, 0, 0, d, m, y)
         /\ calc' = [op |-> "week", day |-> d, month |-> m, year |-> y,
                     dow1 |-> w,
                     result |-> WeekOfMonthFrom(d, w),
                     actual |-> get_week_of_month(d, m, y)]
    /\ UNCHANGED <<program, fetch>>

NextCal == CalValidate \/ CalWeekOfMonth

SpecCal == InitCal /\ [][NextCal]_vars

(***************************************************************************)
(* fetch_time_data and get_character, character by character               *)
(***************************************************************************)
NUL == "NUL"
CY_SCB_UART_SUCCESS == "SUCCESS"
CY_SCB_UART_BAD_PARAM == "BAD_PARAM"

\* Variant of the loop condition of fetch_time_data.
LoopGuard_inclusive(index) == index <= STRING_BUFFER_SIZE

LoopGuard(index) == index < STRING_BUFFER_SIZE

\* The test of the overall budget at the head of an iteration.
BudgetSpent(timeout_ms) == timeout_ms <= UART_TIMEOUT_MS

\* The state on entry of fetch_time_data(buffer, timeout_ms, &space_count)
\* with a zeroed buffer; line and budget remember the call, iterations
\* counts the completed passes of the loop.
FetchEntry(line, budget, junk) ==
    [pc |-> "loop", line |-> line, budget |-> budget, input |-> line,
     timeout_ms |-> budget, iterations |-> 0, index |-> 0,
     space_count |-> 0,
     buffer |-> [i \in 0..(STRING_BUFFER_SIZE - 1) |-> NUL],
     ch |-> junk, rslt |-> "unset", timeoutTicks |-> 0, tx_busy |-> FALSE,
     stop |-> "none", written_outside |-> FALSE, scanned |-> << >>]

InitFetch ==
    /\ pc = "fetch"
    /\ InitProgram
    /\ calc = NoCalc
    /\ \E line \in TypedLines, budget \in Budgets, junk \in IndeterminateChar :
         fetch = FetchEntry(line, budget, junk)

\* timeout_ms -= UART_TIMEOUT_MS at the end of an iteration. The budget
\* test lets an iteration start only with timeout_ms > UART_TIMEOUT_MS, so
\* the unsigned subtraction does not wrap.
NextIteration(f) ==
    [f EXCEPT !.pc = "loop", !.timeout_ms = @ - UART_TIMEOUT_MS,
              !.iterations = @ + 1]

\* printf("\n\r"); return rslt;
FetchReturn(f, why) == [f EXCEPT !.pc = "returned", !.stop = why]

\* The loop condition, the budget test and the call of get_character.
FetchLoopTest ==
    /\ pc = "fetch" /\ fetch.pc = "loop"
    /\ fetch' =
         IF ~LoopGuard(fetch.index)
         THEN FetchReturn(fetch, "full")
         ELSE IF BudgetSpent(fetch.timeout_ms)
         THEN FetchReturn([fetch EXCEPT !.rslt = CY_SCB_UART_BAD_PARAM],
                          "budget")
         ELSE [fetch EXCEPT !.pc = "get", !.timeoutTicks = UART_TIMEOUT_MS]
    /\ UNCHANGED <<program, calc>>

\* get_character: one Cy_SCB_UART_Get and what follows it. The receiver
\* holds the next typed character or nothing.
GetCharacter ==
    /\ pc = "fetch" /\ fetch.pc = "get"
    /\ \E arrived \in BOOLEAN :
         fetch' =
           IF arrived /\ fetch.input # << >>
           THEN [fetch EXCEPT !.pc = "got", !.ch = Head(fetch.input),
                              !.input = Tail(@),
                              !.rslt = CY_SCB_UART_SUCCESS]
           ELSE IF fetch.timeoutTicks > 0
           THEN [fetch EXCEPT !.timeoutTicks = @ - 1]
           ELSE NextIteration([fetch EXCEPT !.rslt = CY_SCB_UART_BAD_PARAM])
    /\ UNCHANGED <<program, calc>>

\* A character was read: a terminator ends the loop, anything else is
\* counted if it is a space and stored at buffer[index].
FetchAccept ==
    /\ pc = "fetch" /\ fetch.pc = "got"
    /\ fetch' =
         IF fetch.ch \in {"\n", "\r"}
         THEN FetchReturn(fetch, "terminator")
         ELSE [fetch EXCEPT
                 !.pc = "put",
                 !.space_count = IF fetch.ch = " " THEN @ + 1 ELSE @,
                 !.buffer = [i \in DOMAIN @ |->
                                IF i = fetch.index THEN fetch.ch ELSE @[i]],
                 !.written_outside =
                     @ \/ fetch.index \notin 0..(STRING_BUFFER_SIZE - 1)]
    /\ UNCHANGED <<program, calc>>

\* The echo: Cy_SCB_UART_Put returns 0 while the transmitter is busy; once
\* the character is taken rslt is set, index grows and the budget shrinks.
FetchEcho ==
    /\ pc = "fetch" /\ fetch.pc = "put"
    /\ fetch' =
         IF fetch.tx_busy
         THEN fetch
         ELSE NextIteration([fetch EXCEPT !.tx_busy = TRUE,
                                          !.rslt = CY_SCB_UART_SUCCESS,
                                          !.index = @ + 1])
    /\ UNCHANGED <<program, calc>>

\* The transmitter sends the echoed character.
TxDrain ==
    /\ pc = "fetch" /\ fetch.pc # "none" /\ fetch.tx_busy
    /\ fetch' = [fetch EXCEPT !.tx_busy = FALSE]
    /\ UNCHANGED <<program, calc>>

\* The characters of the C string held in buffer from position i on.
RECURSIVE CString(_, _)
CString(buffer, i) ==
    IF i \notin DOMAIN buffer \/ buffer[i] = NUL
    THEN << >>
    ELSE <<buffer[i]>> \o CString(buffer, i + 1)

DigitValue(c) ==
    CASE c = "0" -> 0 [] c = "1" -> 1 [] c = "2" -> 2 [] c = "3" -> 3
      [] c = "4" -> 4 [] c = "5" -> 5 [] c = "6" -> 6 [] c = "7" -> 7
      [] c = "8" -> 8 [] c = "9" -> 9
IsDigit(c) == c \in {"0", "1", "2", "3", "4", "5", "6", "7", "8", "9"}
IsSpace(c) == c \in {" ", "\t", "\n", "\r"}

RECURSIVE SkipSpace(_)
SkipSpace(s) == IF s # << >> /\ IsSpace(Head(s)) THEN SkipSpace(Tail(s)) ELSE s

\* The digits at the head of s: <<value, rest>>.
RECURSIVE ScanDigits(_, _)
ScanDigits(s, acc) ==
    IF s # << >> /\ IsDigit(Head(s))
    THEN ScanDigits(Tail(s), acc * 10 + DigitValue(Head(s)))
    ELSE <<acc, s>>

\* sscanf(s, "%u %u ... %u") with n conversions: the values converted before
\* the first conversion that fails.
RECURSIVE ScanFields(_, _)
ScanFields(s, n) ==
    LET t == SkipSpace(s)
    IN  IF n = 0 \/ t = << >> \/ ~IsDigit(Head(t))
        THEN << >>
        ELSE LET r == ScanDigits(t, 0)
             IN  <<r[1]>> \o ScanFields(r[2], n - 1)

\* set_new_time after fetch_time_data: the result test, the space count
\* test and the sscanf into hour, min, sec, mday, month, year. A buffer
\* filled to its last character carries no terminating NUL, and the string
\* runs on into whatever follows it.
SetNewTimeScan ==
    /\ pc = "fetch" /\ fetch.pc = "returned"
    /\ fetch.rslt # CY_SCB_UART_BAD_PARAM
    /\ fetch.space_count = MIN_SPACE_KEY_COUNT_NEW_TIME
    /\ \E junk \in Indeterminate,
          beyond \in IF fetch.index >= STRING_BUFFER_SIZE
                     THEN {<< >>, <<"9">>} ELSE {<< >>} :
         LET text == CString(fetch.buffer, 0) \o beyond
             old == [i \in 1..6 |-> junk]
         IN  fetch' = [fetch EXCEPT
                         !.pc = "scanned",
                         !.scanned = TimeFields(Sscanf(old,
                                                   ScanFields(text, 6)))]
    /\ UNCHANGED <<program, calc>>

FetchStep ==
    \/ FetchLoopTest
    \/ GetCharacter
    \/ FetchAccept
    \/ FetchEcho
    \/ SetNewTimeScan

NextFetch == FetchStep \/ TxDrain

SpecFetch == InitFetch /\ [][NextFetch]_vars

(***************************************************************************)
(* get_character called on its own                                         *)
(***************************************************************************)
\* Variant of the test of the tick counter.
TicksLeft_early(timeoutTicks) == timeoutTicks > 1

\* if (timeoutTicks > 0UL)
TicksLeft(timeoutTicks) == timeoutTicks > 0

\* The state on entry of get_character(base, value, timeout): pending are
\* the units still to arrive, rx the units held by the receiver; units,
\* sleeps and taken remember what will arrive, the calls of
\* Cy_SysLib_Delay(1) and the units read from the receiver.
ReaderEntry(units, timeout, junk) ==
    [pc |-> "poll", units |-> units, pending |-> units, rx |-> << >>,
     timeout |-> timeout, timeoutTicks |-> timeout, value |-> junk,
     rslt |-> "unset", sleeps |-> 0, taken |-> 0]

InitReader ==
    /\ pc = "reader"
    /\ InitProgram
    /\ calc = NoCalc
    /\ \E units \in ReaderUnits, timeout \in 0..MaxTimeout,
          junk \in IndeterminateChar :
         fetch = ReaderEntry(units, timeout, junk)

\* A unit reaches the receiver.
ReaderArrive ==
    /\ pc = "reader" /\ fetch.pc \in {"poll", "returned"}
    /\ fetch.pending # << >>
    /\ fetch' = [fetch EXCEPT !.rx = Append(@, Head(fetch.pending)),
                              !.pending = Tail(@)]
    /\ UNCHANGED <<program, calc>>

\* One Cy_SCB_UART_Get and what follows it: the return of the unit read or,
\* on CY_SCB_UART_RX_NO_DATA, the delay of one tick, the return of the
\* timeout status, or with timeout 0 the next attempt.
ReaderPoll ==
    /\ pc = "reader" /\ fetch.pc = "poll"
    /\ fetch' =
         IF fetch.rx # << >>
         THEN [fetch EXCEPT !.pc = "returned", !.value = Head(fetch.rx),
                            !.rx = Tail(@), !.taken = @ + 1,
                            !.rslt = CY_SCB_UART_SUCCESS]
         ELSE IF fetch.timeout # 0
         THEN IF TicksLeft(fetch.timeoutTicks)
              THEN [fetch EXCEPT !.timeoutTicks = @ - 1, !.sleeps = @ + 1]
              ELSE [fetch EXCEPT !.pc = "returned",
                                 !.rslt = CY_SCB_UART_BAD_PARAM]
         ELSE fetch
    /\ UNCHANGED <<program, calc>>

NextReader == ReaderPoll \/ ReaderArrive

SpecReader == InitReader /\ [][NextReader]_vars

(***************************************************************************)
(* Properties                                                              *)
(***************************************************************************)
ZeroSchedule == [startDst |-> ZeroRule, stopDst |-> ZeroRule]

\* A configure-DST flow has returned to the dispatcher loop.
DstFlowEnded == pc = "main_top" /\ flow.kind = "dst"

\* A line with exactly 3 spaces and four fields that pass the validation.
GoodDstLine(line) ==
    /\ line.spaces = 3
    /\ Len(line.fields) = 4
    /\ validate_date_time(0, 0, line.fields[1], line.fields[2],
                          line.fields[3], line.fields[4])

\* The rule point a line "HH dd mm yyyy" stands for under selector sel.
ExpectedRule(sel, line) ==
    LET h == line.fields[1]  d == line.fields[2]
        m == line.fields[3]  y == line.fields[4]
    IN  IF sel = "1"
        THEN [format |-> "FIXED", hour |-> h, month |-> m, dayOfWeek |-> 1,
              dayOfMonth |-> d, weekOfMonth |-> 1]
        ELSE [format |-> "RELATIVE", hour |-> h, month |-> m,
              dayOfWeek |-> Cy_RTC_ConvertDayOfWeek(d, m, y),
              dayOfMonth |-> 1,
              weekOfMonth |-> get_week_of_month(d, m, y)]

\* An enable flow entered with the feature disabled, with a valid selector,
\* a good start line and a good end line, whose commit was not rejected.
C1_Case ==
    /\ DstFlowEnded
    /\ flow.op = "enable"
    /\ flow.entry_flag = 0
    /\ flow.sel \in {"1", "2"}
    /\ GoodDstLine(flow.start_line)
    /\ GoodDstLine(flow.end_line)
    /\ flow.commit # "rejected"

\* C1: from Disabled, an enable flow with a valid format selector, a valid
\* start line and a valid end line whose commit the clock accepts ends with
\* the flag Active and the clock holding the schedule built from the two
\* lines.
C1_EnableReachesActive ==
    C1_Case =>
        /\ dst_data_flag = 3
        /\ rtc_dst = [startDst |-> ExpectedRule(flow.sel, flow.start_line),
                      stopDst  |-> ExpectedRule(flow.sel, flow.end_line)]

C1_Witness ==
    /\ C1_Case
    /\ flow.commit = "accepted"
    /\ flow.sel = "2"
    /\ flow.start_line # flow.end_line

\* The clock rejected a commit of a DST schedule.
DstCommitRejected == flow.kind = "dst" /\ flow.commit = "rejected"

\* C2: after a rejected DST commit (enable or disable) the program is in the
\* fatal halt: interrupts disabled, the flag still EndCaptured (enable) or as
\* at entry (disable), and no step changes anything any more.
C2_RejectedDstCommitHalts ==
    /\ [](DstCommitRejected =>
            /\ pc = "halted"
            /\ ~irq_enabled
            /\ flow.op = "enable" => dst_data_flag = 2
            /\ flow.op = "disable" => dst_data_flag = flow.entry_flag)
    /\ [][DstCommitRejected => UNCHANGED vars]_vars

C2_Witness ==
    /\ DstCommitRejected
    /\ flow.op = "disable"
    /\ flow.entry_flag = 3
    /\ pc = "halted"

\* C3: after a rejected commit of a new date/time in the set-time flow the
\* program is in the fatal halt.
C3_RejectedTimeCommitHalts ==
    (flow.kind = "time" /\ flow.commit = "rejected") =>
        (pc = "halted" /\ ~irq_enabled)

\* The canonical null schedule.
CanonicalNull ==
    [format |-> "FIXED", hour |-> 0, month |-> 1, dayOfWeek |-> 1,
     dayOfMonth |-> 1, weekOfMonth |-> 1]

CanonicalNullSchedule == [startDst |-> CanonicalNull, stopDst |-> CanonicalNull]

\* A disable action whose commit was not rejected has returned.
C4_Case ==
    /\ DstFlowEnded
    /\ flow.op = "disable"
    /\ flow.commit # "rejected"

\* C4: the disable action, from any state and with the commit accepted, ends
\* with the flag Disabled and both rule points (of the builder and of the
\* clock) equal to the canonical null rule; a second disable in a row leaves
\* the state as the first one left it.
C4_DisableYieldsNullSchedule ==
    C4_Case =>
        /\ dst_data_flag = 0
        /\ dst_time = CanonicalNullSchedule
        /\ rtc_dst = CanonicalNullSchedule
        /\ flow.prev = "disable" =>
             /\ dst_data_flag = flow.entry_flag
             /\ dst_time = flow.entry_dst
             /\ rtc_dst = flow.entry_rtc_dst

C4_Witness ==
    /\ C4_Case
    /\ flow.commit = "accepted"
    /\ flow.prev = "disable"

\* Positions of the enable flow from the end-time prompt on.
EndBlock == {"dst_end", "dst_end_store", "dst_commit_read", "dst_commit"}

\* C5: when the start step of the enable flow fails validation the flow ends
\* there: no end-time prompt, no commit, and flag and committed schedule at
\* the end of the flow as at its beginning.
C5_FailedStartEndsFlow ==
    (flow.kind = "dst" /\ flow.start = "invalid") =>
        /\ pc \notin EndBlock
        /\ flow.end = "none"
        /\ flow.commit = "none"
        /\ pc = "main_top" =>
             /\ dst_data_flag = flow.entry_flag
             /\ rtc_dst = flow.entry_rtc_dst

\* C6: once an input step of a flow has timed out the flow has returned to
\* the dispatcher loop: no further input step, no commit.
C6_TimeoutAbandonsFlow ==
    (flow.timeouts > 0) =>
        /\ pc = "main_top"
        /\ ~flow.late_input
        /\ flow.commit = "none"

\* C7: an enable flow cancelled by a timeout after the start rule point was
\* built leaves the schedule builder as it was at flow entry.
C7_TimeoutDiscardsBuilder ==
    (DstFlowEnded /\ flow.start = "ok" /\ flow.timeouts > 0) =>
        dst_time = flow.entry_dst

\* An enable flow captured a valid start rule, timed out at the end-time
\* prompt and returned.
C8_Case == DstFlowEnded /\ flow.start = "ok" /\ flow.end = "timeout"

\* C8: an enable flow that captures a valid start rule and then times out
\* at the end-time prompt leaves the flag at StartCaptured, not at its value
\* at flow entry (Disabled or Active), and commits nothing.
C8_EndTimeoutLeavesStartCaptured ==
    C8_Case =>
        /\ dst_data_flag = 1
        /\ flow.entry_flag \in {0, 3} => dst_data_flag # flow.entry_flag
        /\ flow.commit = "none"
        /\ rtc_dst = flow.entry_rtc_dst

C8_Witness == C8_Case /\ flow.entry_flag = 3

\* C9: once a schedule was committed, the schedule the interrupt handler
\* works on is exactly the last committed one whenever the handler runs.
C9_IsrSeesCommittedSchedule ==
    (in_isr /\ rtc_dst # ZeroSchedule) => dst_time = rtc_dst

\* Positions at which Cy_RTC_GetDateAndTime is reading the clock.
SnapshotReads == {"main_read", "dst_status_read", "dst_commit_read", "dis_read"}

\* C10: while the foreground reads the clock snapshot interrupts are masked
\* and the interrupt handler is not running.
C10_SnapshotReadAtomic ==
    (pc \in SnapshotReads) => (~irq_enabled /\ ~in_isr)

\* C11: century_data is the century of the full year of the date and time
\* the clock last accepted (2000 before any), so that century_data plus the
\* clock's two-digit year is that full year.
C11_CenturyMatchesCommittedYear ==
    /\ century_data = (rtc_year \div 100) * 100
    /\ century_data + rtc_time.year = rtc_year

\* The calendar rule as the specification states it: the month lengths, the
\* leap years and the ranges of the six fields.
ClaimMonthLength == <<31, 28, 31, 30, 31, 30, 31, 31, 30, 31, 30, 31>>

ClaimLeap(y) == (y % 4 = 0 /\ y % 100 # 0) \/ (y % 400 = 0)

ClaimLength(m, y) ==
    IF m = 2 /\ ClaimLeap(y) THEN 29 ELSE ClaimMonthLength[m]

ClaimValid(s, mi, h, d, m, y) ==
    /\ s <= 60 /\ mi <= 60 /\ h <= 23
    /\ m >= 1 /\ m <= 12
    /\ y > 0
    /\ d >= 1 /\ d <= ClaimLength(m, y)

\* A set-time line that does not have exactly 5 spaces, or has six fields
\* (hour, minute, second, day, month, year) that are not a valid date/time.
BadTimeLine(line) ==
    \/ line.spaces # 5
    \/ /\ Len(line.fields) = 6
       /\ ~ClaimValid(line.fields[3], line.fields[2], line.fields[1],
                      line.fields[4], line.fields[5], line.fields[6])

\* C12: a set-time step that received a line without exactly 5 spaces, or
\* with fields failing the calendar validation, changes neither the clock,
\* nor century_data, nor the DST flag, nor the DST schedule, and does not
\* call the clock's set-time operation.
C12_InvalidTimeLineMutatesNothing ==
    [][(/\ pc = "time_line"
        /\ flow'.start # "timeout"
        /\ BadTimeLine(flow'.start_line))
       => /\ UNCHANGED <<rtc_time, rtc_year, century_data, dst_data_flag,
                         dst_time, rtc_dst>>
          /\ flow'.commit = "none"]_vars

C12_Witness ==
    /\ pc = "main_top"
    /\ flow.kind = "time"
    /\ flow.start_line.spaces = 5
    /\ Len(flow.start_line.fields) = 6
    /\ BadTimeLine(flow.start_line)
    /\ flow.commit = "none"

\* The operator answered the DST menu with the quit command and the flow has
\* returned.
C13_Case == DstFlowEnded /\ flow.cmd = "3"

\* C13: the quit action at the DST menu leaves the flag, both rule points of
\* the builder, the committed schedule, the clock and century_data as they
\* were at flow entry.
C13_QuitChangesNothing ==
    C13_Case =>
        /\ dst_data_flag = flow.entry_flag
        /\ dst_time = flow.entry_dst
        /\ rtc_dst = flow.entry_rtc_dst
        /\ <<rtc_time, century_data>> = flow.entry_clock

C13_Witness ==
    /\ C13_Case
    /\ flow.entry_flag = 3
    /\ flow.entry_clock # <<RTC_config, 2000>>

\* C14: whenever the enable flow has committed a schedule, the end rule
\* point of that schedule has the format of its start rule point.
C14_CommittedFormatsAgree ==
    (DstFlowEnded /\ flow.op = "enable" /\ flow.commit = "accepted") =>
        rtc_dst.stopDst.format = rtc_dst.startDst.format

C16_WeekOfMonthInRange ==
    (calc.op = "week") => (calc.result \in 1..5 /\ calc.actual \in 1..5)

\* The number of days d in 1..day that fall on the weekday of day, which is
\* ceil(day / 7).
WeekdayOrdinal(day) == (day + 6) \div 7

\* The weekday index (1..7) of day when day 1 of the month has index dow1.
WeekdayOf(day, dow1) == ((dow1 - 1 + day - 1) % 7) + 1

C18_WeekStepsEverySevenDays ==
    (calc.op = "week") =>
        /\ WeekOfMonthFrom(1, calc.dow1) = 1
        /\ get_week_of_month(1, calc.month, calc.year) = 1
        /\ WeekOfMonthFrom(calc.day + 1, calc.dow1) >= calc.result
        /\ WeekOfMonthFrom(calc.day + 7, calc.dow1) = calc.result + 1
        /\ get_week_of_month(calc.day + 7, calc.month, calc.year)
               = calc.actual + 1

C18_Witness ==
    /\ calc.op = "week"
    /\ calc.day = 7 /\ calc.dow1 = 1
    /\ calc.result = 1
    /\ WeekOfMonthFrom(calc.day + 1, calc.dow1) = 2

FetchReturned == fetch.pc \in {"returned", "scanned"}

\* What holds throughout a call of fetch_time_data and at its return.
FetchStopsForOneReason ==
    (fetch.pc # "none") =>
        /\ ~fetch.written_outside
        /\ fetch.index \in 0..STRING_BUFFER_SIZE
        /\ fetch.index <= fetch.iterations
        /\ fetch.timeout_ms
               = fetch.budget - UART_TIMEOUT_MS * fetch.iterations
        /\ fetch.timeout_ms >= 0
        /\ FetchReturned <=> (fetch.stop # "none")
        /\ FetchReturned =>
             /\ fetch.stop \in {"terminator", "full", "budget"}
             /\ (fetch.stop = "terminator") =>
                    /\ fetch.ch \in {"\n", "\r"}
                    /\ fetch.index < STRING_BUFFER_SIZE
                    /\ fetch.timeout_ms > UART_TIMEOUT_MS
             /\ (fetch.stop = "full") =>
                    fetch.index = STRING_BUFFER_SIZE
             /\ (fetch.stop = "budget") =>
                    /\ fetch.timeout_ms <= UART_TIMEOUT_MS
                    /\ fetch.index < STRING_BUFFER_SIZE
             /\ (fetch.rslt = CY_SCB_UART_BAD_PARAM)
                    <=> (fetch.stop = "budget")
             /\ fetch.rslt \in {CY_SCB_UART_SUCCESS, CY_SCB_UART_BAD_PARAM}

\* The position within an iteration of the loop, counted down: the loop
\* head, the polls of get_character left, the character read, the echo.
FetchStage ==
    CASE fetch.pc = "loop" -> UART_TIMEOUT_MS + 4
      [] fetch.pc = "get" -> fetch.timeoutTicks + 3
      [] fetch.pc = "got" -> 2
      [] fetch.pc = "put" -> 1
      [] OTHER -> 0

\* A bound on the steps fetch_time_data and the transmitter can still take
\* before the return.
FetchMeasure ==
    (fetch.timeout_ms * (UART_TIMEOUT_MS + 5) + FetchStage) * 2
        + (IF fetch.tx_busy THEN 1 ELSE 0)

\* C19: fetch_time_data always returns: until it has returned a step is
\* possible, and every step lowers a bound that never falls below 0. It
\* leaves its loop by exactly one of a line terminator read, 80 characters
\* accepted, or the overall budget, reduced by UART_TIMEOUT_MS on every
\* iteration, used up; it returns the timeout status exactly when the
\* budget test ended the loop, and it never writes outside the 80
\* characters of the buffer.
C19_FetchTerminatesForOneReason ==
    /\ []FetchStopsForOneReason
    /\ [](FetchReturned \/ ENABLED <<NextFetch>>_vars)
    /\ [][(fetch.pc # "none" /\ ~FetchReturned)
            => (FetchMeasure' < FetchMeasure /\ FetchMeasure' >= 0)]_vars

C19_Witness ==
    /\ fetch.pc = "returned"
    /\ fetch.stop = "full"
    /\ fetch.index = STRING_BUFFER_SIZE
    /\ fetch.timeout_ms = UART_TIMEOUT_MS
    /\ fetch.rslt = CY_SCB_UART_SUCCESS

\* The characters of a typed line before its first terminator.
RECURSIVE BeforeTerminator(_)
BeforeTerminator(line) ==
    IF line = << >> \/ Head(line) \in {"\n", "\r"}
    THEN << >>
    ELSE <<Head(line)>> \o BeforeTerminator(Tail(line))

SpacesIn(text) == Cardinality({i \in 1..Len(text) : text[i] = " "})

\* C20: for a line of numeric fields separated by single spaces whose
\* terminator arrives within the budget, fetch_time_data leaves in the
\* buffer the text before the terminator and in space_count the number of
\* its spaces, and set_new_time reads six fields in the order hour, minute,
\* second, day, month, year: "12 30 00 15 06 2025" gives 5 spaces and
\* hour 12, minute 30, second 0, day 15, month 6, year 2025.
C20_LineTextAndFieldOrder ==
    /\ (FetchReturned /\ fetch.stop = "terminator") =>
           /\ CString(fetch.buffer, 0) = BeforeTerminator(fetch.line)
           /\ fetch.space_count = SpacesIn(BeforeTerminator(fetch.line))
           /\ fetch.rslt = CY_SCB_UART_SUCCESS
    /\ (FetchReturned /\ fetch.stop = "terminator"
            /\ fetch.line = ExampleLine) =>
           fetch.space_count = 5
    /\ (fetch.pc = "scanned" /\ fetch.line = ExampleLine) =>
           fetch.scanned = [hour |-> 12, min |-> 30, sec |-> 0,
                            mday |-> 15, month |-> 6, year |-> 2025]

C20_Witness ==
    /\ fetch.pc = "scanned"
    /\ fetch.line = ExampleLine
    /\ fetch.stop = "terminator"
    /\ fetch.scanned.hour = 12 /\ fetch.scanned.year = 2025

\* What holds during a call of get_character and at its return.
ReaderContract ==
    (pc = "reader") =>
        /\ fetch.taken + Len(fetch.rx) + Len(fetch.pending) = Len(fetch.units)
        /\ (fetch.timeout # 0) =>
               fetch.sleeps + fetch.timeoutTicks = fetch.timeout
        /\ (fetch.timeout = 0) =>
               (fetch.rslt # CY_SCB_UART_BAD_PARAM /\ fetch.sleeps = 0)
        /\ (fetch.pc = "poll") => (fetch.taken = 0 /\ fetch.rslt = "unset")
        /\ (fetch.pc = "returned" /\ fetch.rslt = CY_SCB_UART_BAD_PARAM) =>
               /\ fetch.timeout > 0
               /\ fetch.sleeps = fetch.timeout
               /\ fetch.taken = 0
        /\ (fetch.pc = "returned" /\ fetch.rslt # CY_SCB_UART_BAD_PARAM) =>
               /\ fetch.rslt = CY_SCB_UART_SUCCESS
               /\ fetch.taken = 1
               /\ fetch.value = fetch.units[1]
               /\ fetch.sleeps <= fetch.timeout

\* C21: get_character with timeout T > 0 returns the first unit that reaches
\* the receiver if it is there at one of the attempts made within T delays
\* of one tick, and returns the timeout status after exactly T delays, not
\* earlier and without taking a unit, if none is; with T = 0 it never
\* returns the timeout status and returns only with a unit.
C21_ReaderTimeoutAfterTTicks ==
    /\ []ReaderContract
    /\ [][(pc = "reader" /\ fetch.pc = "poll" /\ fetch.rx # << >>
             /\ fetch'.pending = fetch.pending)
          => /\ fetch'.pc = "returned"
             /\ fetch'.rslt = CY_SCB_UART_SUCCESS
             /\ fetch'.value = Head(fetch.rx)]_vars
    /\ [][(pc = "reader" /\ fetch.pc = "poll" /\ fetch'.pc = "returned"
             /\ fetch'.rslt = CY_SCB_UART_BAD_PARAM)
          => (fetch.rx = << >> /\ fetch.sleeps = fetch.timeout)]_vars

C21_Witness ==
    /\ pc = "reader" /\ fetch.pc = "returned"
    /\ fetch.timeout = UART_TIMEOUT_MS
    /\ fetch.rslt = CY_SCB_UART_BAD_PARAM
    /\ fetch.sleeps = UART_TIMEOUT_MS
    /\ fetch.rx # << >>

\* The positions inside set_new_time and set_dst_feature, ranked by the
\* longest path that is left to the end of the flow.
FlowRank(p) ==
    CASE p = "time_line" -> 1
      [] p = "dst_entry" -> 10
      [] p = "dst_status_read" -> 9
      [] p = "dst_menu" -> 8
      [] p = "dst_fmt" -> 7
      [] p = "dst_start" -> 6
      [] p = "dst_start_store" -> 5
      [] p = "dst_end" -> 4
      [] p = "dst_end_store" -> 3
      [] p = "dst_commit_read" -> 2
      [] p = "dst_commit" -> 1
      [] p = "dis_store" -> 4
      [] p = "dis_copy" -> 3
      [] p = "dis_read" -> 2
      [] p = "dis_commit" -> 1
      [] OTHER -> 0

InFlow == FlowRank(pc) > 0

\* A bound on the steps the running flow can still take: the rank of the
\* position, and within a position the stores still to be made.
FlowMeasure == FlowRank(pc) * 10 - idx

\* A step of the main program, as opposed to the entry or return of rtc_isr.
ProgramStep == Next /\ in_isr' = in_isr

\* C22: every invocation of set_new_time or set_dst_feature ends, by the
\* return to the dispatcher loop or by the halt of handle_error, whatever
\* the input does: while a flow runs a step is possible, every step of the
\* flow lowers a bound that never falls below 0, and the flow is over when
\* the bound is spent; back in the loop the dispatcher reads the clock again.
C22_FlowsEnd ==
    /\ [][(InFlow /\ in_isr' = in_isr)
          => (FlowMeasure' < FlowMeasure /\ FlowMeasure' >= 0)]_vars
    /\ [](InFlow =>
             IF in_isr THEN ENABLED <<RtcIsrReturn>>_vars
                       ELSE ENABLED <<ProgramStep>>_vars)
    /\ []((FlowMeasure <= 0) => (pc \in {"main_top", "main_read",
                                         "main_exit_cs", "main_cmd",
                                         "halted"}))
    /\ []((pc = "main_top" /\ ~in_isr) => ENABLED <<MainEnterCritical>>_vars)
    /\ []((pc = "main_read") =>
             (~in_isr /\ ENABLED <<MainGetDateAndTime>>_vars))
    /\ [][(pc = "main_read" /\ pc' # pc) => (current_time' = rtc_time)]_vars

C22_Witness ==
    /\ pc = "main_top"
    /\ flow.kind = "dst" /\ flow.op = "enable"
    /\ flow.start = "ok" /\ flow.end = "timeout"

\* The rule point r is the one the line stands for under selector sel, every
\* value it takes from the line being a field of that line.
BuiltFromLine(r, sel, line) ==
    /\ Len(line.fields) >= 3
    /\ r.hour = line.fields[1]
    /\ r.month = line.fields[3]
    /\ IF sel = FIXED_DST_FORMAT
       THEN /\ r.format = CY_RTC_DST_FIXED
            /\ r.dayOfMonth = line.fields[2]
            /\ r.dayOfWeek = 1 /\ r.weekOfMonth = 1
       ELSE /\ r.format = CY_RTC_DST_RELATIVE
            /\ r.dayOfMonth = 1
            /\ Len(line.fields) = 4
            /\ r.dayOfWeek = Cy_RTC_ConvertDayOfWeek(line.fields[2],
                                 line.fields[3], line.fields[4])
            /\ r.weekOfMonth = get_week_of_month(line.fields[2],
                                   line.fields[3], line.fields[4])

\* C23: every rule point the enable flow builds follows its format: Fixed
\* has the entered day as dayOfMonth and dayOfWeek = weekOfMonth = 1,
\* Relative has dayOfMonth = 1, the weekday of the entered date and its
\* get_week_of_month; hour and month are the entered values in both.
C23_RulePointsFollowFormat ==
    [][/\ (pc = "dst_start_store" /\ pc' # pc) =>
              BuiltFromLine(dst_time'.startDst, fmt, flow.start_line)
       /\ (pc = "dst_end_store" /\ pc' # pc) =>
              BuiltFromLine(dst_time'.stopDst, fmt, flow.end_line)]_vars

\* C24: when set_dst_feature reports the status Disabled at its entry
\* (dst_data_flag is not DST_ENABLED_FLAG), the schedule the RTC holds is the
\* null schedule of the disable action, or none was ever committed.
C24_DisabledMeansNoSchedule ==
    (pc = "dst_entry" /\ dst_data_flag # DST_ENABLED_FLAG) =>
        (rtc_dst = CanonicalNullSchedule \/ rtc_dst = ZeroSchedule)

\* The dispatcher loop and the entries of the two flows.
OutsideDstFlow ==
    {"main_top", "main_read", "main_exit_cs", "main_cmd", "time_line",
     "dst_entry"}

\* C25: dst_data_flag = DST_VALID_END_TIME_FLAG is transient: at every
\* return of set_dst_feature to the dispatcher loop, and so at every entry
\* of it, the flag is 0, 1 or 3; the value 2 exists only from the last store
\* of the end time to the commit of the same invocation, and is left to 3
\* by an accepted commit or kept in the halt of handle_error by a rejected
\* one.
C25_EndCapturedIsTransient ==
    /\ []((pc \in OutsideDstFlow) =>
             dst_data_flag \in {DST_DISABLED_FLAG, DST_VALID_START_TIME_FLAG,
                                DST_ENABLED_FLAG})
    /\ []((dst_data_flag = DST_VALID_END_TIME_FLAG) =>
             /\ pc \in {"dst_commit_read", "dst_commit", "halted"}
             /\ (pc = "halted") => (flow.commit = "rejected"))
    /\ [][(dst_data_flag = DST_VALID_END_TIME_FLAG
             /\ dst_data_flag' # dst_data_flag)
          => /\ dst_data_flag' = DST_ENABLED_FLAG
             /\ pc = "dst_commit"
             /\ flow'.commit = "accepted"
             /\ flow'.kind = flow.kind /\ flow'.entry_flag = flow.entry_flag]_vars

C25_Witness ==
    /\ pc = "halted"
    /\ dst_data_flag = DST_VALID_END_TIME_FLAG
    /\ flow.op = "enable" /\ flow.commit = "rejected"

\* An end-time line with exactly 3 spaces and fewer than four numeric
\* fields has been read in the running enable flow.
ShortEndLine ==
    /\ flow.kind = "dst" /\ flow.op = "enable"
    /\ flow.end \in {"ok", "invalid"}
    /\ flow.end_line.spaces = MIN_SPACE_KEY_COUNT_DST_TIME
    /\ Len(flow.end_line.fields) < 4

\* C26: the end rule point is built only from fields of the end-time line:
\* an end line with exactly 3 spaces and fewer than four numeric fields is
\* rejected as invalid, no end time is stored and no commit follows from it.
C26_ShortEndLineRejected ==
    ShortEndLine =>
        /\ flow.end = "invalid"
        /\ pc # "dst_end_store"
        /\ dst_data_flag # DST_VALID_END_TIME_FLAG
        /\ flow.commit = "none"

====
